---- MODULE Spec2Model ----
(***************************************************************************)
(* Seat inventory and ticket lifecycle of the ticket booking backend:      *)
(* TicketViewSet.create (purchase) and TicketViewSet.cancel in             *)
(* src/api/views.py, the serializers they call in src/api/serializers.py,  *)
(* and the Event / Ticket models of src/api/models.py.                     *)
(*                                                                         *)
(* Every HTTP request is served by its own worker.  A worker is a slot of  *)
(* `req`; one action is one stretch of handler code between two database   *)
(* statements, so that the statements of concurrent requests interleave.   *)
(* The database is READ COMMITTED: `events` and `tickets` hold committed   *)
(* rows only, a row written inside transaction.atomic() stays in the       *)
(* worker (req[r].ev, req[r].tk) until the block is left, and the row lock *)
(* an UPDATE takes is held in `event_lock` until commit or rollback.       *)
(*                                                                         *)
(* Times are whole hours since day 0, 00:00.  Reference numbers            *)
(* 'TKT-XXXXXXXX' are the integers 1..NumRefs.  Null is Python's None /    *)
(* SQL NULL for ids and references, NoDate for datetimes.                  *)
(***************************************************************************)
EXTENDS Integers, Sequences, FiniteSets, TLC

VARIABLES events, tickets, now, req, event_lock

vars == <<events, tickets, now, req, event_lock>>

(* ------------------------------ bounds --------------------------------- *)
\* seats of the event the requests compete for
TotalSeats == 3
\* largest quantity of a ticket row that exists when the requests start
MaxQty == 2
\* ticket rows the table can hold
MaxTickets == 4
\* distinct reference numbers the random source can draw
NumRefs == 4
\* the clock advances TickHours at a time, up to MaxNow
TickHours == 12
MaxNow == 24

(* ------------------------- program constants --------------------------- *)
MIN_QUANTITY == 1
MAX_QUANTITY == 10
HoursPerDay == 24
\* `time_until_event.days < 1`
MinDaysBeforeEvent == 1
\* `24 * 60 * 60` seconds, in hours
CancelWindowHours == 24
EventPrice == 20

Null == 0
NoDate == -1

\* the workers; the users; the users who buy
Reqs == {1, 2}
Users == {1, 2}
Buyers == {1}
EventIds == {1, 2}
Refs == 1..NumRefs
Statuses == {"pending", "confirmed", "cancelled"}
\* event_id and pk values a request can carry: the rows and one id of no row
RequestEventIds == EventIds \cup {3}
\* quantities a request can carry: below, inside and above [1, 10]
RequestQuantities == (0..TotalSeats) \cup {MAX_QUANTITY, MAX_QUANTITY + 1}
\* The purchase requests <<user, event_id, quantity>>: every event_id and
\* quantity from a buyer, and one request without credentials
PurchaseRequests ==
    (Buyers \X RequestEventIds \X RequestQuantities) \cup {<<Null, 1, 1>>}

(* --------------------------- model fields ------------------------------ *)
\* Event.formatted_date / formatted_time are strftime renderings of the fields
formatted_date(ev) == <<"%d.%m.%Y", ev.date>>
formatted_time(ev) == <<"%H:%M", ev.time>>

\* total_price without the quantity
total_price_of_one(self) == self.price

\* Ticket.total_price
total_price(self) == self.price * self.quantity

NoQr == [null |-> TRUE]

\* Ticket.generate_qr_code_data (the model's method)
Ticket_generate_qr_code_data(self, ev) ==
    [ ticket_id        |-> self.id,
      reference_number |-> self.reference_number,
      event_id         |-> IF self.event # Null THEN self.event ELSE Null,
      event_title      |-> IF self.event # Null THEN ev.title ELSE "",
      event_date       |-> IF self.event # Null THEN formatted_date(ev) ELSE <<>>,
      event_time       |-> IF self.event # Null THEN formatted_time(ev) ELSE <<>>,
      user_id          |-> self.user,
      quantity         |-> self.quantity,
      total_price      |-> total_price(self),
      purchase_date    |-> self.purchase_date,
      status           |-> self.status,
      verified         |-> FALSE ]

\* generate_qr_code_data called with the ticket that was created
generate_qr_code_data_of_ticket(ticket, ev) ==
    [raised |-> FALSE, exception |-> "",
     value |-> [ ticket_id        |-> ticket.id,
                 reference_number |-> ticket.reference_number,
                 event_id         |-> ticket.event,
                 event_title      |-> ev.title,
                 user_id          |-> ticket.user,
                 quantity         |-> ticket.quantity,
                 purchase_date    |-> ticket.purchase_date,
                 verified         |-> FALSE ]]

\* generate_qr_code_data as it would be if it read the keys of a dict
generate_qr_code_data_reads_keys(ticket, ev) ==
    [raised |-> FALSE, exception |-> "",
     value |-> [ ticket_id        |-> ticket.id,
                 reference_number |-> ticket.reference_number,
                 event_id         |-> ticket.event,
                 event_title      |-> ev.title,
                 user_id          |-> ticket.user,
                 quantity         |-> ticket.quantity,
                 purchase_date    |-> ticket.purchase_date,
                 verified         |-> FALSE ]]

\* serializers.generate_qr_code_data(ticket): its first statement reads the
\* attribute ticket.id.  A Ticket instance has it; a dict has keys, not
\* attributes, and the read raises AttributeError.
generate_qr_code_data(ticket, ev) ==
    IF ticket.py_type = "dict"
    THEN [raised |-> TRUE, exception |-> "AttributeError", value |-> NoQr]
    ELSE [raised |-> FALSE, exception |-> "",
          value |-> [ ticket_id        |-> ticket.id,
                      reference_number |-> ticket.reference_number,
                      event_id         |-> ticket.event,
                      event_title      |-> ev.title,
                      user_id          |-> ticket.user,
                      quantity         |-> ticket.quantity,
                      purchase_date    |-> ticket.purchase_date,
                      verified         |-> FALSE ]]

\* The statements of Ticket.save before super().save(): `cand` is what
\* Ticket.generate_reference_number() returns if it is called, `ev` the
\* in-memory self.event, `t` timezone.now().
Ticket_save(self, ev, cand, t) ==
    LET s1 == IF self.reference_number = Null
              THEN [self EXCEPT !.reference_number = cand] ELSE self
        s2 == IF s1.event # Null /\ s1.price = 0
              THEN [s1 EXCEPT !.price = ev.price] ELSE s1
        s3 == IF s2.qr_code_data = NoQr /\ s2.event # Null /\ s2.user # Null
              THEN [s2 EXCEPT !.qr_code_data = Ticket_generate_qr_code_data(s2, ev)]
              ELSE s2
        s4 == IF s3.status = "cancelled" /\ s3.cancelled_date = NoDate
              THEN [s3 EXCEPT !.cancelled_date = t, !.refund_amount = total_price(s3)]
              ELSE s3
    IN s4

\* generate_reference_number(): draws until the candidate is on no visible row
ReferenceCandidates(rows) ==
    {c \in Refs : \A i \in DOMAIN rows : rows[i].reference_number # c}

\* a reference_number column without the unique index
UniqueViolation_no_index(rows, id, ref) == FALSE

\* Ticket.reference_number is unique=True: the INSERT or UPDATE of a row whose
\* reference is on another row raises IntegrityError
UniqueViolation(rows, id, ref) ==
    ref # Null /\ \E i \in DOMAIN rows : i # id /\ rows[i].reference_number = ref

(* ---------------------------- transactions ----------------------------- *)
\* leaving `with transaction.atomic()` normally: the rows written become visible
TxnCommit(table, id, row) == [table EXCEPT ![id] = row]

\* the UPDATE outside a transaction: the row written stays
TxnRollback_autocommit(table, id, row) == [table EXCEPT ![id] = row]

\* leaving it by an exception: the rows written are discarded
TxnRollback(table, id, row) == table

(* ------------------------------- state --------------------------------- *)
NoEvent == [title |-> "", date |-> 0, time |-> 0, price |-> 0,
            total_seats |-> 0, available_seats |-> 0, is_active |-> FALSE]

NoTicket == [id |-> Null, event |-> Null, user |-> Null, price |-> 0, quantity |-> 0,
             status |-> "pending", reference_number |-> Null, qr_code_data |-> NoQr,
             purchase_date |-> NoDate, cancelled_date |-> NoDate, refund_amount |-> 0]

\* A worker.  While pc # "idle" it serves the request `kind` and holds its
\* in-memory objects (ev, tk, ref); once idle again, kind, code, error and
\* refund are the response it sent last.
IdleReq == [pc |-> "idle", kind |-> "", user |-> Null, event_id |-> Null,
            quantity |-> 0, ticket_id |-> Null, ev |-> NoEvent, tk |-> NoTicket,
            ref |-> Null, code |-> 0, error |-> "", refund |-> 0]

InFlight(r) == req[r].pc # "idle"

\* The worker answers the request `kind` and drops what it held in memory
Reply(kind, code, error) ==
    [IdleReq EXCEPT !.kind = kind, !.code = code, !.error = error]

Today == now \div HoursPerDay

\* the seats a ticket row keeps out of sale
Holds(t) == IF t.status = "cancelled" THEN 0 ELSE t.quantity

RECURSIVE HeldSeats(_, _)
\* seats that the rows 1..n keep out of sale
HeldSeats(rows, n) ==
    IF n = 0 THEN 0 ELSE Holds(rows[n]) + HeldSeats(rows, n - 1)

\* The event on sale, with `avail` seats left
SeedEvent(avail) ==
    [title |-> "E1", date |-> 1, time |-> 1, price |-> EventPrice,
     total_seats |-> TotalSeats, available_seats |-> avail, is_active |-> TRUE]

\* A ticket row of user 1 for event 1 as Ticket.save stores a new row
SeedTicket(id, q, st) ==
    LET row == [NoTicket EXCEPT !.event = 1, !.user = 1, !.price = EventPrice,
                                !.quantity = q, !.status = st]
    IN [Ticket_save(row, SeedEvent(TotalSeats), id, 0) EXCEPT !.id = id, !.purchase_date = 0]

\* The ticket tables the requests start from: a pending or confirmed row of
\* any quantity and a confirmed row of one seat
SeedTickets ==
    {[i \in 1..2 |-> IF i = 1 THEN [q |-> q, st |-> st] ELSE [q |-> 1, st |-> "confirmed"]] :
        q \in 1..MaxQty, st \in {"pending", "confirmed"}}

\* No purchase commits (see PurchaseCreateTicket), so the rows that exist were
\* stored through the admin site (TicketAdmin, EventAdmin), here with the
\* seats they hold taken off the event.
Init ==
    /\ now = 0
    /\ \E f \in SeedTickets :
         LET rows == [i \in DOMAIN f |-> SeedTicket(i, f[i].q, f[i].st)]
             held == HeldSeats(rows, Cardinality(DOMAIN f))
         IN /\ held <= TotalSeats
            /\ tickets = rows
            /\ events = [e \in EventIds |->
                 IF e = 1 THEN SeedEvent(TotalSeats - held)
                 ELSE [SeedEvent(TotalSeats) EXCEPT !.title = "E2", !.price = 0,
                                                     !.is_active = FALSE]]
    /\ req = [r \in Reqs |-> IdleReq]
    /\ event_lock = [e \in EventIds |-> Null]

(* ------------------------------ purchase ------------------------------- *)
\* validate() without the is_active test
TicketPurchaseSerializer_validate_any_event(e, q) ==
    IF q < MIN_QUANTITY \/ q > MAX_QUANTITY THEN "quantity"
    ELSE IF e \notin EventIds THEN "Event not found"
    ELSE IF events[e].available_seats < q THEN "Only N seats available"
    ELSE ""

\* TicketPurchaseSerializer: the field validators (quantity in [1, 10]) and
\* validate() on the committed rows; "" when the data is valid
TicketPurchaseSerializer_validate(e, q) ==
    IF q < MIN_QUANTITY \/ q > MAX_QUANTITY THEN "quantity"
    ELSE IF e \notin EventIds THEN "Event not found"
    ELSE IF ~events[e].is_active THEN "Event is not active"
    ELSE IF events[e].available_seats < q THEN "Only N seats available"
    ELSE ""

\* TicketViewSet.create up to `with transaction.atomic()`: the permission
\* check and purchase_serializer.is_valid(raise_exception=True)
PurchaseValidate(r, u, e, q) ==
    /\ req[r].pc = "idle"
    /\ LET error == TicketPurchaseSerializer_validate(e, q)
       IN IF u = Null THEN req' = [req EXCEPT ![r] = Reply("purchase", 401, "NotAuthenticated")]
          ELSE IF error # "" THEN req' = [req EXCEPT ![r] = Reply("purchase", 400, error)]
          ELSE req' = [req EXCEPT ![r] =
                   [IdleReq EXCEPT !.pc = "purchase_decrement", !.kind = "purchase",
                                   !.user = u, !.event_id = e, !.quantity = q,
                                   !.ev = events[e]]]
    /\ UNCHANGED <<events, tickets, now, event_lock>>

\* The check and the decrement on the in-memory event, and event.save():
\* the UPDATE waits for the row lock and keeps it
PurchaseDecrement(r) ==
    /\ req[r].pc = "purchase_decrement"
    /\ LET rq == req[r]
       IN IF rq.ev.available_seats < rq.quantity
          THEN /\ req' = [req EXCEPT ![r] = Reply("purchase", 400, "Only N seats available")]
               /\ UNCHANGED event_lock
          ELSE /\ event_lock[rq.event_id] = Null
               /\ event_lock' = [event_lock EXCEPT ![rq.event_id] = r]
               /\ req' = [req EXCEPT ![r] =
                      [rq EXCEPT !.pc = "purchase_reference",
                                 !.ev.available_seats = rq.ev.available_seats - rq.quantity]]
    /\ UNCHANGED <<events, tickets, now>>

\* reference_number=generate_reference_number(), the first argument evaluated
PurchaseReference(r, cand) ==
    /\ req[r].pc = "purchase_reference"
    /\ cand \in ReferenceCandidates(tickets)
    /\ req' = [req EXCEPT ![r] = [req[r] EXCEPT !.pc = "purchase_create", !.ref = cand]]
    /\ UNCHANGED <<events, tickets, now, event_lock>>

\* The dict handed to generate_qr_code_data, Ticket.objects.create, the second
\* generate_qr_code_data, ticket.save(), and the end of the atomic block
PurchaseCreateTicket(r, cand2) ==
    /\ req[r].pc = "purchase_create"
    /\ cand2 \in ReferenceCandidates(tickets)
    /\ LET rq == req[r]
           e == rq.event_id
           draft == [py_type |-> "dict", id |-> 0, event |-> e, user |-> rq.user,
                     quantity |-> rq.quantity, purchase_date |-> now,
                     reference_number |-> cand2]
           qr0 == generate_qr_code_data(draft, rq.ev)
           id == Cardinality(DOMAIN tickets) + 1
           new == Ticket_save([NoTicket EXCEPT !.event = e, !.user = rq.user,
                                  !.price = rq.ev.price, !.quantity = rq.quantity,
                                  !.status = "confirmed", !.reference_number = rq.ref,
                                  !.qr_code_data = qr0.value],
                              rq.ev, cand2, now)
           row == [new EXCEPT !.id = id, !.purchase_date = now]
           qr1 == generate_qr_code_data([py_type |-> "Ticket"] @@ row, rq.ev)
           saved == Ticket_save([row EXCEPT !.qr_code_data = qr1.value], rq.ev, cand2, now)
           fail(error) ==
               /\ events' = TxnRollback(events, e, rq.ev)
               /\ tickets' = tickets
               /\ req' = [req EXCEPT ![r] = Reply("purchase", 500, error)]
       IN IF qr0.raised THEN fail(qr0.exception)
          ELSE IF UniqueViolation(tickets, id, row.reference_number)
          THEN fail("IntegrityError")
          ELSE /\ id <= MaxTickets
               /\ events' = TxnCommit(events, e, rq.ev)
               /\ tickets' = [i \in DOMAIN tickets \cup {id} |->
                                 IF i = id THEN saved ELSE tickets[i]]
               /\ req' = [req EXCEPT ![r] = Reply("purchase", 201, "")]
    /\ event_lock' = [event_lock EXCEPT ![req[r].event_id] = Null]
    /\ UNCHANGED now

(* ------------------------------- cancel -------------------------------- *)
\* The cancel requests <<user, pk>>: every row and one pk of no row from
\* every user, and one request without credentials
CancelRequests ==
    (Users \X (DOMAIN tickets \cup {Cardinality(DOMAIN tickets) + 1})) \cup {<<Null, 1>>}

\* Event date and time combined (timezone.datetime.combine), in hours
event_datetime(ev) == ev.date * HoursPerDay + ev.time

\* Ticket.can_be_cancelled, the model's own rule; the view does not call it
can_be_cancelled(self, ev) ==
    IF self.status # "confirmed" THEN FALSE
    ELSE IF self.event = Null THEN FALSE
    ELSE event_datetime(ev) - now > CancelWindowHours

\* a queryset of every ticket
get_queryset_all(u) == DOMAIN tickets

\* TicketViewSet.get_queryset: the caller's own tickets
get_queryset(u) == {i \in DOMAIN tickets : tickets[i].user = u}

\* TicketViewSet.cancel: the permission check, self.get_object() and the
\* status test
CancelGetObject(r, u, pk) ==
    /\ req[r].pc = "idle"
    /\ IF u = Null THEN req' = [req EXCEPT ![r] = Reply("cancel", 401, "NotAuthenticated")]
       ELSE IF pk \notin get_queryset(u)
       THEN req' = [req EXCEPT ![r] =
                [Reply("cancel", 404, "Not found") EXCEPT !.user = u, !.ticket_id = pk]]
       ELSE IF tickets[pk].status = "cancelled"
       THEN req' = [req EXCEPT ![r] = Reply("cancel", 400, "Ticket already cancelled")]
       ELSE req' = [req EXCEPT ![r] =
                [IdleReq EXCEPT !.pc = "cancel_window", !.kind = "cancel", !.user = u,
                                !.ticket_id = pk, !.tk = tickets[pk],
                                !.event_id = tickets[pk].event,
                                !.quantity = tickets[pk].quantity]]
    /\ UNCHANGED <<events, tickets, now, event_lock>>

\* `ticket.event.date` loads the event row and keeps it on the ticket; the
\* test compares calendar dates: (event.date - today).days < 1
CancelCheckWindow(r) ==
    /\ req[r].pc = "cancel_window"
    /\ LET rq == req[r]
           ev == events[rq.tk.event]
       IN IF rq.tk.event = Null
          THEN req' = [req EXCEPT ![r] = Reply("cancel", 500, "AttributeError")]
          ELSE IF ev.date - Today < MinDaysBeforeEvent
          THEN req' = [req EXCEPT ![r] =
                   Reply("cancel", 400, "Cannot cancel ticket less than 24 hours before event")]
          ELSE req' = [req EXCEPT ![r] = [rq EXCEPT !.pc = "cancel_restore", !.ev = ev]]
    /\ UNCHANGED <<events, tickets, now, event_lock>>

\* `ticket.event.available_seats += ticket.quantity; ticket.event.save()` on
\* the event loaded by CancelCheckWindow: the UPDATE waits for the row lock
CancelRestoreSeats(r) ==
    /\ req[r].pc = "cancel_restore"
    /\ event_lock[req[r].event_id] = Null
    /\ event_lock' = [event_lock EXCEPT ![req[r].event_id] = r]
    /\ req' = [req EXCEPT ![r] =
           [req[r] EXCEPT !.pc = "cancel_save",
                          !.ev.available_seats = req[r].ev.available_seats + req[r].tk.quantity]]
    /\ UNCHANGED <<events, tickets, now>>

\* `ticket.status = 'cancelled'; ticket.save()`, the end of the atomic block
\* and the response with float(ticket.price * ticket.quantity)
CancelSaveTicket(r, cand) ==
    /\ req[r].pc = "cancel_save"
    /\ cand \in ReferenceCandidates(tickets)
    /\ LET rq == req[r]
           saved == Ticket_save([rq.tk EXCEPT !.status = "cancelled"], rq.ev, cand, now)
       IN /\ events' = TxnCommit(events, rq.event_id, rq.ev)
          /\ tickets' = TxnCommit(tickets, rq.ticket_id, saved)
          /\ req' = [req EXCEPT ![r] =
                 [Reply("cancel", 200, "") EXCEPT !.refund = saved.price * saved.quantity]]
    /\ event_lock' = [event_lock EXCEPT ![req[r].event_id] = Null]
    /\ UNCHANGED now

(* --------------------------- admin: add ticket ------------------------- *)
\* What the TicketAdmin add form can carry: event, user, quantity and status
\* (price is left to Ticket.save)
AdminTicketForms ==
    [event : {1}, user : {Null}, quantity : {1}, status : {"pending", "confirmed"}]

\* admin add views still to commit
AddsInFlight == Cardinality({x \in Reqs : req[x].pc = "admin_insert"})

\* TicketAdmin.save_model and Ticket.save up to super().save(): the staff
\* user `a` posts the add form; `cand` is the reference Ticket.save draws
AdminAddSave(r, a, form, cand) ==
    /\ req[r].pc = "idle"
    /\ Cardinality(DOMAIN tickets) + AddsInFlight < MaxTickets
    /\ cand \in ReferenceCandidates(tickets)
    /\ LET obj == [NoTicket EXCEPT !.event = form.event,
                                   !.user = IF form.user = Null THEN a ELSE form.user,
                                   !.quantity = form.quantity, !.status = form.status]
       IN req' = [req EXCEPT ![r] =
              [IdleReq EXCEPT !.pc = "admin_insert", !.kind = "admin_add", !.user = a,
                              !.event_id = form.event, !.quantity = form.quantity,
                              !.tk = Ticket_save(obj, events[form.event], cand, now)]]
    /\ UNCHANGED <<events, tickets, now, event_lock>>

\* super().save(): the INSERT under the unique index, and the commit
AdminAddInsert(r) ==
    /\ req[r].pc = "admin_insert"
    /\ LET id == Cardinality(DOMAIN tickets) + 1
           row == [req[r].tk EXCEPT !.id = id, !.purchase_date = now]
       IN IF UniqueViolation(tickets, id, row.reference_number)
          THEN /\ tickets' = tickets
               /\ req' = [req EXCEPT ![r] = Reply("admin_add", 500, "IntegrityError")]
          ELSE /\ tickets' = [i \in DOMAIN tickets \cup {id} |->
                                 IF i = id THEN row ELSE tickets[i]]
               /\ req' = [req EXCEPT ![r] = Reply("admin_add", 302, "")]
    /\ UNCHANGED <<events, now, event_lock>>

(* ----------------------- tickets API: update --------------------------- *)
\* available_seats has no upper limit in the code; the edits below are
\* explored while no event holds more seats than it has
EditsExplored ==
    \A e \in EventIds : events[e].available_seats <= events[e].total_seats

\* What a PATCH /tickets/<pk>/ can carry: TicketSerializer leaves status,
\* quantity, event and price writable (read_only_fields names four others)
StatusPatches == [field : {"status"}, value : Statuses]

SeatPatches ==
    [field : {"quantity"}, value : 1..MaxQty] \cup [field : {"event"}, value : EventIds]

\* ModelSerializer.update: the validated field is set on the instance
TicketSerializer_update(instance, patch) ==
    CASE patch.field = "status"   -> [instance EXCEPT !.status = patch.value]
      [] patch.field = "quantity" -> [instance EXCEPT !.quantity = patch.value]
      [] patch.field = "event"    -> [instance EXCEPT !.event = patch.value]
      [] OTHER                    -> instance

\* TicketViewSet.partial_update, inherited from ModelViewSet: the permission
\* check, get_object() on the caller's tickets, serializer.save() and with it
\* Ticket.save()
TicketPartialUpdate(u, pk, patch) ==
    /\ EditsExplored
    /\ u # Null
    /\ pk \in get_queryset(u)
    /\ LET obj == TicketSerializer_update(tickets[pk], patch)
           ev == IF obj.event = Null THEN NoEvent ELSE events[obj.event]
           saved == Ticket_save(obj, ev, obj.reference_number, now)
       IN /\ saved # tickets[pk]
          /\ tickets' = [tickets EXCEPT ![pk] = saved]
    /\ UNCHANGED <<events, now, req, event_lock>>

(* ------------------------ admin: ticket actions ------------------------ *)
\* confirm_tickets: queryset.update(status='confirmed') on the selected rows,
\* whatever their status; Ticket.save is not called
confirm_tickets(queryset) ==
    /\ EditsExplored
    /\ \E i \in queryset : tickets[i].status # "confirmed"
    /\ tickets' = [i \in DOMAIN tickets |->
                      IF i \in queryset THEN [tickets[i] EXCEPT !.status = "confirmed"]
                      ELSE tickets[i]]
    /\ UNCHANGED <<events, now, req, event_lock>>

\* cancel_tickets: queryset.update(status='cancelled') on the selected rows
cancel_tickets(queryset) ==
    /\ EditsExplored
    /\ \E i \in queryset : tickets[i].status # "cancelled"
    /\ tickets' = [i \in DOMAIN tickets |->
                      IF i \in queryset THEN [tickets[i] EXCEPT !.status = "cancelled"]
                      ELSE tickets[i]]
    /\ UNCHANGED <<events, now, req, event_lock>>

(* ------------------------ events API: update --------------------------- *)
\* What a PATCH /events/<pk>/ can carry: EventSerializer leaves price and
\* available_seats writable (total_seats and is_active too, left as they are
\* here)
PricePatches == [field : {"price"}, value : {0, EventPrice}]

AvailablePatches == [field : {"available_seats"}, value : 0..TotalSeats]

\* ModelSerializer.update: the validated field is set on the instance
EventSerializer_update(instance, patch) ==
    CASE patch.field = "price"           -> [instance EXCEPT !.price = patch.value]
      [] patch.field = "available_seats" -> [instance EXCEPT !.available_seats = patch.value]
      [] OTHER                           -> instance

\* EventViewSet.partial_update, inherited from ModelViewSet, open to every
\* caller (AllowAny): get_object(), serializer.save() and with it Event.save(),
\* which leaves available_seats alone on a row that has a pk
EventPartialUpdate(e, patch) ==
    /\ e \in EventIds
    /\ LET saved == EventSerializer_update(events[e], patch)
       IN /\ saved # events[e]
          /\ events' = [events EXCEPT ![e] = saved]
    /\ UNCHANGED <<tickets, now, req, event_lock>>

(* ------------------------ admin: event actions ------------------------- *)
\* make_active: queryset.update(is_active=True) on the selected events
make_active(queryset) ==
    /\ \E e \in queryset : ~events[e].is_active
    /\ events' = [e \in EventIds |->
                     IF e \in queryset THEN [events[e] EXCEPT !.is_active = TRUE]
                     ELSE events[e]]
    /\ UNCHANGED <<tickets, now, req, event_lock>>

\* Time passes.  The clock is coarse (TickHours) and a request is short: it
\* is served within one period of the clock.
Tick ==
    /\ \A r \in Reqs : ~InFlight(r)
    /\ now + TickHours <= MaxNow
    /\ now' = now + TickHours
    /\ UNCHANGED <<events, tickets, req, event_lock>>

\* the purchase requests served by the workers R
Purchase(R) ==
    \E r \in R :
        \/ \E p \in PurchaseRequests : PurchaseValidate(r, p[1], p[2], p[3])
        \/ PurchaseDecrement(r)
        \/ \E c \in Refs : PurchaseReference(r, c)
        \/ \E c \in Refs : PurchaseCreateTicket(r, c)

\* the cancel requests served by the workers R
Cancel(R) ==
    \E r \in R :
        \/ \E c \in CancelRequests : CancelGetObject(r, c[1], c[2])
        \/ CancelCheckWindow(r)
        \/ CancelRestoreSeats(r)
        \/ \E c \in Refs : CancelSaveTicket(r, c)

\* the tickets added on the admin site by the workers R
AdminAdd(R) ==
    \E r \in R :
        \/ \E a \in Buyers, form \in AdminTicketForms, c \in Refs : AdminAddSave(r, a, form, c)
        \/ AdminAddInsert(r)

Next ==
    \/ Purchase(Reqs)
    \/ Cancel(Reqs)
    \/ Tick

\* concurrent purchase and cancel requests
Spec == Init /\ [][Next]_vars

NextSolo ==
    \/ Purchase({1})
    \/ Cancel({1})
    \/ Tick

\* one request at a time
SpecSolo == Init /\ [][NextSolo]_vars

NextPurchase ==
    \/ Purchase(Reqs)
    \/ Tick

\* concurrent purchase requests, no cancellation
SpecPurchase == Init /\ [][NextPurchase]_vars

NextAdmin ==
    \/ Purchase(Reqs)
    \/ AdminAdd(Reqs)

\* concurrent purchase requests and tickets added on the admin site
SpecAdmin == Init /\ [][NextAdmin]_vars

\* the tickets updated through the tickets API
TicketUpdate(patches) ==
    \E u \in Users : \E pk \in DOMAIN tickets : \E patch \in patches :
        TicketPartialUpdate(u, pk, patch)

\* the ticket actions of the admin site
AdminTicketActions ==
    \/ \E queryset \in SUBSET DOMAIN tickets : confirm_tickets(queryset)
    \/ \E queryset \in SUBSET DOMAIN tickets : cancel_tickets(queryset)

NextCancel == Cancel(Reqs)

\* concurrent cancel requests
SpecCancel == Init /\ [][NextCancel]_vars

NextReference ==
    \/ Purchase(Reqs)
    \/ \E queryset \in SUBSET EventIds : make_active(queryset)

\* concurrent purchase requests of two events on sale
SpecReference == Init /\ [][NextReference]_vars

\* the events updated through the events API
EventUpdate(patches) ==
    \E e \in EventIds : \E patch \in patches : EventPartialUpdate(e, patch)

NextPriceEdit ==
    \/ Cancel({1})
    \/ AdminAdd({1})
    \/ EventUpdate(PricePatches)

\* cancel requests, tickets added on the admin site and updates of an
\* event's price
SpecPriceEdit == Init /\ [][NextPriceEdit]_vars

NextAvailableEdit ==
    \/ Purchase({1})
    \/ Cancel({1})
    \/ EventUpdate(AvailablePatches)

\* purchase and cancel requests and updates of an event's available_seats
SpecAvailableEdit == Init /\ [][NextAvailableEdit]_vars

NextStatusEdit ==
    \/ Cancel({1})
    \/ TicketUpdate(StatusPatches)
    \/ AdminTicketActions

\* cancel requests, updates of a ticket's status and admin ticket actions
SpecStatusEdit == Init /\ [][NextStatusEdit]_vars

NextSeatEdit ==
    \/ Cancel({1})
    \/ TicketUpdate(SeatPatches)

\* cancel requests and updates of a ticket's quantity and event
SpecSeatEdit == Init /\ [][NextSeatEdit]_vars

(* ============================== properties ============================== *)
\* the worker r answers the request `kind` in this step
Answers(r, kind) == req[r].kind = kind /\ InFlight(r) /\ req'[r].pc = "idle"

RECURSIVE ConfirmedSeatsUpTo(_, _)
\* seats of event e on the confirmed rows 1..n
ConfirmedSeatsUpTo(e, n) ==
    IF n = 0 THEN 0
    ELSE (IF tickets[n].event = e /\ tickets[n].status = "confirmed"
          THEN tickets[n].quantity ELSE 0) + ConfirmedSeatsUpTo(e, n - 1)

ConfirmedSeats(e) == ConfirmedSeatsUpTo(e, Cardinality(DOMAIN tickets))

\* C1: a purchase by an authenticated user for 1 <= q <= 10 seats of an
\* existing active event with available_seats >= q, alone in flight, succeeds:
\* the request is accepted, and when it is answered the answer is 201, exactly
\* one ticket row is new, confirmed, of quantity q and the event's price, and
\* the stored available_seats is q less than before.
C1_PurchaseSucceeds ==
    [][\A r \in Reqs :
         /\ \A p \in PurchaseRequests :
              ( /\ PurchaseValidate(r, p[1], p[2], p[3])
                /\ p[1] # Null /\ p[3] >= 1 /\ p[3] <= 10
                /\ p[2] \in DOMAIN events /\ events[p[2]].is_active
                /\ events[p[2]].available_seats >= p[3] )
              => req'[r].pc # "idle"
         /\ Answers(r, "purchase") =>
              LET e == req[r].event_id
                  q == req[r].quantity
                  new == DOMAIN tickets' \ DOMAIN tickets
              IN /\ req'[r].code = 201
                 /\ Cardinality(new) = 1
                 /\ \A i \in new : /\ tickets'[i].status = "confirmed"
                                   /\ tickets'[i].quantity = q
                                   /\ tickets'[i].price = events[e].price
                 /\ events'[e].available_seats = events[e].available_seats - q
      ]_vars

\* C2: under any interleaving of concurrent purchase requests, the
\* quantities of the confirmed tickets of an event never add up to more than
\* its total_seats.
C2_NeverOversold ==
    \A e \in EventIds : ConfirmedSeats(e) <= events[e].total_seats

\* two purchases of the same event in flight, the first with its decrement
\* written, that together ask for more seats than are stored
C2_Witness ==
    /\ req[1].kind = "purchase" /\ req[1].pc = "purchase_create"
    /\ req[2].kind = "purchase" /\ req[2].pc = "purchase_decrement"
    /\ req[1].event_id = req[2].event_id
    /\ req[1].quantity + req[2].quantity > events[req[1].event_id].available_seats

\* C3: in every state reached by purchase and cancel requests the stored
\* available_seats of every event is at least 0 and at most its total_seats.
C3_SeatsWithinBounds ==
    \A e \in EventIds : /\ events[e].available_seats >= 0
                        /\ events[e].available_seats <= events[e].total_seats

\* C4: a cancel of a confirmed ticket of quantity q, alone in flight, that
\* succeeds leaves available_seats q higher, the ticket cancelled with its
\* cancelled_date set, and refund_amount = price * q stored and returned.
C4_CancelRestoresAndRefunds ==
    [][\A r \in Reqs :
         LET pk == req[r].ticket_id
             e == tickets[pk].event
             q == tickets[pk].quantity
         IN ( /\ Answers(r, "cancel") /\ req'[r].code = 200
              /\ tickets[pk].status = "confirmed" )
            => /\ events'[e].available_seats = events[e].available_seats + q
               /\ tickets'[pk].status = "cancelled"
               /\ tickets'[pk].cancelled_date # NoDate
               /\ tickets'[pk].refund_amount = tickets[pk].price * q
               /\ req'[r].refund = tickets'[pk].refund_amount
      ]_vars

\* a cancel of a confirmed ticket of two seats has been answered 200
C4_Witness ==
    \E r \in Reqs, i \in DOMAIN tickets :
        /\ req[r].pc = "idle" /\ req[r].kind = "cancel" /\ req[r].code = 200
        /\ tickets[i].status = "cancelled" /\ tickets[i].quantity = 2
        /\ req[r].refund = tickets[i].refund_amount
        /\ events[1].available_seats = TotalSeats - 1

\* C5: for every ticket at most one cancel succeeds, and its seats are added
\* at most once: a cancel answered 200 finds the stored ticket not cancelled,
\* and a cancel of a cancelled ticket is refused and changes nothing.
C5_CancelAtMostOnce ==
    [][\A r \in Reqs :
         /\ (Answers(r, "cancel") /\ req'[r].code = 200)
              => tickets[req[r].ticket_id].status # "cancelled"
         /\ \A c \in CancelRequests :
              ( /\ CancelGetObject(r, c[1], c[2])
                /\ c[2] \in DOMAIN tickets /\ tickets[c[2]].status = "cancelled" )
              => /\ req'[r].pc = "idle" /\ req'[r].code # 200
                 /\ events' = events /\ tickets' = tickets
      ]_vars

\* C6: a cancel request for a confirmed ticket succeeds only if the event
\* starts more than 24 hours after the current time: no step of such a request
\* taken 24 hours or less before the start changes the ticket or the seats
\* or answers 200.
C6_CancelOnlyOutsideWindow ==
    [][\A r \in Reqs :
         LET pk == req[r].ticket_id
             ev == events[tickets[pk].event]
         IN ( /\ req[r].kind = "cancel" /\ InFlight(r) /\ req'[r] # req[r]
              /\ tickets[pk].status = "confirmed"
              /\ event_datetime(ev) - now <= 24 )
            => /\ tickets' = tickets /\ events' = events
               /\ req'[r].pc = "idle" => req'[r].code # 200
      ]_vars

\* C7: a purchase request with quantity below 1 or above 10, of a missing or
\* inactive event, or for more seats than are available is answered with an
\* error at once, and no ticket row and no event row changes.
C7_InvalidPurchaseRejected ==
    [][\A r \in Reqs : \A p \in PurchaseRequests :
         ( /\ PurchaseValidate(r, p[1], p[2], p[3])
           /\ p[1] # Null
           /\ \/ p[3] < 1 \/ p[3] > 10
              \/ p[2] \notin DOMAIN events
              \/ ~events[p[2]].is_active
              \/ events[p[2]].available_seats < p[3] )
         => /\ req'[r].pc = "idle" /\ req'[r].code = 400
            /\ events' = events /\ tickets' = tickets
      ]_vars

\* two purchases have been rejected: one of an inactive event, one for more
\* seats than are left
C7_Witness ==
    /\ req[1].pc = "idle" /\ req[1].kind = "purchase" /\ req[1].code = 400
    /\ req[1].error = "Event is not active"
    /\ req[2].pc = "idle" /\ req[2].kind = "purchase" /\ req[2].code = 400
    /\ req[2].error = "Only N seats available"

\* C8: a cancel request on a pending ticket fails: no step of it changes
\* the ticket or the seats, and only a confirmed ticket is answered 200.
C8_PendingNotCancelled ==
    [][\A r \in Reqs :
         LET pk == req[r].ticket_id
         IN /\ ( /\ req[r].kind = "cancel" /\ InFlight(r) /\ req'[r] # req[r]
                 /\ tickets[pk].status = "pending" )
               => /\ tickets' = tickets /\ events' = events
                  /\ req'[r].pc = "idle" => req'[r].code # 200
            /\ (Answers(r, "cancel") /\ req'[r].code = 200)
               => tickets[pk].status = "confirmed"
      ]_vars

\* C9: a purchase request that fails after its seat decrement was written
\* leaves the stored events and tickets as they were: no decrement and no
\* ticket row of the request survives.
C9_FailedPurchaseRollsBack ==
    [][\A r \in Reqs :
         ( /\ Answers(r, "purchase") /\ req'[r].code # 201
           /\ req[r].pc \in {"purchase_reference", "purchase_create"} )
         => /\ events' = events /\ tickets' = tickets
      ]_vars

\* a purchase has failed after its decrement was written, and the row lock
\* is free again
C9_Witness ==
    \E r \in Reqs :
        /\ req[r].pc = "idle" /\ req[r].kind = "purchase" /\ req[r].code = 500
        /\ req[r].error = "AttributeError"
        /\ \A e \in EventIds : event_lock[e] = Null

\* C10: no two ticket rows have the same non-null reference_number.
C10_ReferenceUnique ==
    \A i, j \in DOMAIN tickets :
        (i # j /\ tickets[i].reference_number # Null)
        => tickets[i].reference_number # tickets[j].reference_number

\* two writers drew the same candidate: the index refused the second INSERT,
\* and the row of the first is stored
C10_Witness ==
    /\ \E r \in Reqs : req[r].pc = "idle" /\ req[r].error = "IntegrityError"
    /\ Cardinality(DOMAIN tickets) > 2

\* C11: a ticket whose status is cancelled stays cancelled: no cancel
\* request, ticket update or admin action makes it confirmed or pending again.
C11_CancelledIsFinal ==
    [][\A i \in DOMAIN tickets :
         tickets[i].status = "cancelled" => tickets'[i].status = "cancelled"]_vars

\* C12: a cancel request by a user who is not the ticket's user is answered
\* 404 at once and changes no ticket and no event; the cancel requests in
\* flight are all by the user of their ticket.
C12_OnlyOwnerCancels ==
    [][\A r \in Reqs :
         /\ (req[r].kind = "cancel" /\ InFlight(r))
              => tickets[req[r].ticket_id].user = req[r].user
         /\ \A c \in CancelRequests :
              ( /\ CancelGetObject(r, c[1], c[2])
                /\ c[1] # Null /\ c[2] \in DOMAIN tickets
                /\ tickets[c[2]].user # c[1] )
              => /\ req'[r].pc = "idle" /\ req'[r].code = 404
                 /\ events' = events /\ tickets' = tickets
      ]_vars

\* a user has been answered 404 on the ticket of another user, which is
\* stored and not cancelled
C12_Witness ==
    \E r \in Reqs :
        /\ req[r].pc = "idle" /\ req[r].kind = "cancel" /\ req[r].code = 404
        /\ req[r].ticket_id \in DOMAIN tickets
        /\ tickets[req[r].ticket_id].user # req[r].user
        /\ tickets[req[r].ticket_id].status = "confirmed"

\* C13: whenever no request is in flight, the available_seats of every event
\* is its total_seats less the quantities of its confirmed tickets (stated
\* for the states in which no ticket is pending, a pending ticket being a
\* row of the admin site that holds its seats).
C13_SeatsMatchConfirmed ==
    ( /\ \A r \in Reqs : ~InFlight(r)
      /\ \A i \in DOMAIN tickets : tickets[i].status # "pending" )
    => \A e \in EventIds :
         events[e].available_seats = events[e].total_seats - ConfirmedSeats(e)

C15_TicketPriceFixed ==
    [][/\ \A i \in DOMAIN tickets : tickets'[i].price = tickets[i].price
       /\ \A r \in Reqs :
            (Answers(r, "cancel") /\ req'[r].code = 200)
            => LET pk == req[r].ticket_id
               IN /\ tickets'[pk].refund_amount = tickets[pk].price * tickets[pk].quantity
                  /\ req'[r].refund = tickets[pk].price * tickets[pk].quantity
      ]_vars

\* C16: the available_seats of an event changes only in the step that
\* completes a purchase or a cancel request.
C16_SeatsChangeByPurchaseOrCancel ==
    [][\A e \in EventIds :
         events'[e].available_seats # events[e].available_seats
         => \E r \in Reqs : Answers(r, "purchase") \/ Answers(r, "cancel")]_vars

\* C17: between its creation and its cancellation no operation changes a
\* ticket's quantity or its event, so that a cancel gives back the seats the
\* ticket took, to the event it took them from.
C17_SeatsOfTicketFixed ==
    [][\A i \in DOMAIN tickets :
         /\ tickets'[i].quantity = tickets[i].quantity
         /\ tickets'[i].event = tickets[i].event]_vars

\* the ticket the purchase of worker r creates, as stored by
\* Ticket.objects.create
CreatedTicket(r) ==
    [NoTicket EXCEPT !.id = Cardinality(DOMAIN tickets) + 1,
                     !.event = req[r].event_id, !.user = req[r].user,
                     !.price = req[r].ev.price, !.quantity = req[r].quantity,
                     !.status = "confirmed", !.reference_number = req[r].ref,
                     !.purchase_date = now]

====
